---- MODULE Spec2Model ----
(***************************************************************************)
(* Model of the Palworld name generator (src/app.py): the weighted tiered  *)
(* word picker, the bounded retry loop of generate_one_name, the name      *)
(* formatting, and the tier store kept in data/wordlists.json.             *)
(*                                                                         *)
(* A Python str is a sequence of one-character strings, so that casing,    *)
(* first letters and joins are computed character by character.  A dict is *)
(* a function whose DOMAIN is its key set.  None is the model value None.  *)
(***************************************************************************)
EXTENDS Integers, Sequences, FiniteSets, TLC

None == "None"

\* data/wordlists.json does not exist; a module-level name is not yet bound
Absent == [absent |-> TRUE]

(* ------------------------------------------------------------------ *)
(* Bounds of the model                                                *)
(* ------------------------------------------------------------------ *)

\* Slider weights are drawn from 0..MaxWeight (the widget allows 0..10).
MaxWeight == 1

(* ------------------------------------------------------------------ *)
(* Characters and str methods                                         *)
(* ------------------------------------------------------------------ *)

LowerLetters == {"a", "b"}
UpperLetters == {"A", "B"}

\* str.lower() on one character
lower_char(c) ==
    CASE c = "A" -> "a"
      [] c = "B" -> "b"
      [] OTHER   -> c

\* str.upper() on one character
upper_char(c) ==
    CASE c = "a" -> "A"
      [] c = "b" -> "B"
      [] OTHER   -> c

is_cased(c) == c \in LowerLetters \cup UpperLetters

\* s.lower()
str_lower(s) == [i \in 1..Len(s) |-> lower_char(s[i])]

\* s.upper()
str_upper(s) == [i \in 1..Len(s) |-> upper_char(s[i])]

\* s.title(): a cased character is upper-cased when the character before it
\* is not cased (or there is none), lower-cased otherwise.
str_title(s) ==
    [i \in 1..Len(s) |->
        IF i > 1 /\ is_cased(s[i-1]) THEN lower_char(s[i]) ELSE upper_char(s[i])]

(* ------------------------------------------------------------------ *)
(* Formatter                                                          *)
(* ------------------------------------------------------------------ *)

apply_case(s, mode) ==
    CASE mode = "Title Case" -> str_title(s)
      [] mode = "UPPER"      -> str_upper(s)
      [] mode = "lower"      -> str_lower(s)
      [] OTHER               -> s

join_name(adj, noun, separator) ==
    CASE separator = "Space"      -> adj \o <<" ">> \o noun
      [] separator = "Hyphen"     -> adj \o <<"-">> \o noun
      [] separator = "Underscore" -> adj \o <<"_">> \o noun
      [] separator = "of"         -> adj \o <<" ", "o", "f", " ">> \o noun
      [] OTHER                    -> adj \o <<" ">> \o noun

(* ------------------------------------------------------------------ *)
(* dict helpers                                                       *)
(* ------------------------------------------------------------------ *)

\* d.get(k, default)
dict_get(d, k, default) == IF k \in DOMAIN d THEN d[k] ELSE default

(* ------------------------------------------------------------------ *)
(* WeightedPicker                                                     *)
(* ------------------------------------------------------------------ *)

\* available_tiers with `w >= 0` in place of `w > 0`
available_tiers_ge(lists, tier_weights) ==
    {t \in DOMAIN tier_weights :
        tier_weights[t] >= 0 /\ Len(dict_get(lists, t, <<>>)) > 0}

\* available_tiers of pick_word_from_tiers (line 94)
available_tiers(lists, tier_weights) ==
    {t \in DOMAIN tier_weights :
        tier_weights[t] > 0 /\ Len(dict_get(lists, t, <<>>)) > 0}

\* The set of values pick_word_from_tiers can return, over every outcome of
\* rng.choices (every available tier has a positive weight) and rng.choice.
pick_word_from_tiers(lists, tier_weights) ==
    IF available_tiers(lists, tier_weights) = {}
    THEN {None}
    ELSE UNION {{<<tier, lists[tier][i]>> : i \in 1..Len(lists[tier])} :
                    tier \in available_tiers(lists, tier_weights)}

(* ------------------------------------------------------------------ *)
(* State                                                              *)
(* ------------------------------------------------------------------ *)

VARIABLES
    file,             \* data/wordlists.json: Absent, else the JSON object in it
    data,             \* module-level data (the loaded JSON object)
    tiers,            \* module-level tiers
    adjectives,       \* tier -> list of adjectives
    nouns,            \* tier -> list of nouns
    tier_weights,     \* tier -> slider weight
    separator,
    case_mode,
    alliteration,
    avoid_duplicates,
    used_names,       \* set of lower-cased names already produced
    pc,               \* source line generate_one_name is at ("idle" outside a call)
    tries,
    picked_adj,       \* last value of picked_adj, None before the first pick
    picked_noun,      \* last (noun_tier, noun_raw), None before the first pick
    final_name,
    result,           \* value returned by generate_one_name
    lists,            \* argument of a direct pick_word_from_tiers call
    picked,           \* its return value
    text,             \* argument of a direct normalize_words call
    out,              \* its return value
    last_name,        \* st.session_state["last_name"]
    history,          \* st.session_state["history"]: (name, tier), newest first
    event             \* the widget event that started the last script run

storeVars == <<file, data, tiers, event>>
wordVars  == <<adjectives, nouns>>
reqVars   == <<tier_weights, separator, case_mode, alliteration, avoid_duplicates,
               used_names>>
callVars  == <<pc, tries, picked_adj, picked_noun, final_name, result>>
pickVars  == <<lists, picked>>
normVars  == <<text, out>>
sessVars  == <<last_name, history>>
vars      == <<storeVars, wordVars, reqVars, callVars, pickVars, normVars, sessVars>>

(* ------------------------------------------------------------------ *)
(* Input sets                                                         *)
(* ------------------------------------------------------------------ *)

TierNames == {"Common", "Rare"}

Weights == 0..MaxWeight

\* dicts over some of the tier names
Dicts(vals) == UNION {[ks -> vals] : ks \in SUBSET TierNames}

W_Ab  == <<"A", "b">>
W_b   == <<"b">>
W_a_b == <<"a", "-", "b">>
W_B   == <<"B">>
W_    == <<>>

\* adjectives of a call: a tier with two words and a word shared by both
\* tiers; a tier without words; an empty word; no word at all
AdjDicts ==
    { [Common |-> <<W_Ab>>, Rare |-> <<W_b, W_Ab>>],
      [Common |-> <<>>,     Rare |-> <<W_b>>],
      [Common |-> <<W_>>,   Rare |-> <<W_Ab>>],
      [Common |-> <<>>,     Rare |-> <<>>] }

\* nouns of a call; the last dict has no entry for Rare
NounDicts ==
    { [Common |-> <<W_a_b>>, Rare |-> <<W_, W_B>>],
      [Common |-> <<>>,      Rare |-> <<W_a_b>>],
      [Common |-> <<>>] }

Separators == {"Space", "Hyphen", "Underscore", "of"}
CaseModes  == {"Title Case", "UPPER", "lower"}

(* ------------------------------------------------------------------ *)
(* NameGenerator                                                      *)
(* ------------------------------------------------------------------ *)

MAX_TRIES == 250

\* enabled_nouns: the (tier, noun) pairs of the tiers with weight > 0
enabled_nouns(nns, tw) ==
    UNION {{<<t, dict_get(nns, t, <<>>)[i]>> : i \in 1..Len(dict_get(nns, t, <<>>))} :
              t \in {u \in DOMAIN tw : tw[u] > 0}}

\* nouns_by_letter with every non-empty noun filed under every letter
nouns_by_letter_any(nns, tw, letter) ==
    {p \in enabled_nouns(nns, tw) : Len(p[2]) > 0}

\* nouns_by_letter.get(letter, []): the enabled non-empty nouns whose first
\* character lower-cases to letter
nouns_by_letter(nns, tw, letter) ==
    {p \in enabled_nouns(nns, tw) : Len(p[2]) > 0 /\ lower_char(p[2][1]) = letter}

\* lines 150-152
format_name(adj_raw, noun_raw) ==
    join_name(apply_case(adj_raw, case_mode), apply_case(noun_raw, case_mode), separator)

\* line 154
is_duplicate(name) == avoid_duplicates /\ str_lower(name) \in used_names

\* the noun draws of one attempt for the adjective adj_raw: None when
\* pick_word_from_tiers returns None (alliteration off)
noun_draws(adj_raw) ==
    IF alliteration
    THEN nouns_by_letter(nouns, tier_weights, lower_char(adj_raw[1]))
    ELSE pick_word_from_tiers(nouns, tier_weights)

\* the values of the three `return None` statements (lines 135, 147, 159)
ret_L135 == None
ret_L147 == None
ret_L159 == None

\* line 157, with the tiers exchanged
make_result_swapped(name, adj_tier, noun_tier) == <<name, noun_tier, adj_tier>>

\* line 157: return final_name, adj_tier, noun_tier
make_result(name, adj_tier, noun_tier) == <<name, adj_tier, noun_tier>>

InLoop == pc = "L130" /\ tries < MAX_TRIES

\* lines 133-135 with `continue` in place of `return None`
AttemptNoAdjective_continue ==
    /\ pc = "L130" /\ tries < MAX_TRIES
    /\ None \in pick_word_from_tiers(adjectives, tier_weights)
    /\ tries' = tries + 1
    /\ picked_adj' = None
    /\ pc' = "L130"
    /\ UNCHANGED <<picked_noun, final_name, result>>
    /\ UNCHANGED <<storeVars, wordVars, reqVars, pickVars, normVars, sessVars>>

\* lines 133-135: no adjective can be picked
AttemptNoAdjective ==
    /\ InLoop
    /\ None \in pick_word_from_tiers(adjectives, tier_weights)
    /\ tries' = tries + 1
    /\ picked_adj' = None
    /\ result' = ret_L135
    /\ pc' = "L135"
    /\ UNCHANGED <<picked_noun, final_name>>
    /\ UNCHANGED <<storeVars, wordVars, reqVars, pickVars, normVars, sessVars>>

\* line 139: adj_raw[0] on an empty adjective raises IndexError
AttemptIndexError ==
    /\ InLoop
    /\ alliteration
    /\ \E pa \in pick_word_from_tiers(adjectives, tier_weights) :
          /\ pa # None
          /\ Len(pa[2]) = 0
          /\ picked_adj' = pa
    /\ tries' = tries + 1
    /\ pc' = "L139"
    /\ UNCHANGED <<picked_noun, final_name, result>>
    /\ UNCHANGED <<storeVars, wordVars, reqVars, pickVars, normVars, sessVars>>

\* lines 138-142: no enabled noun starts with the adjective's letter
AttemptNoCandidates ==
    /\ InLoop
    /\ alliteration
    /\ \E pa \in pick_word_from_tiers(adjectives, tier_weights) :
          /\ pa # None
          /\ Len(pa[2]) > 0
          /\ noun_draws(pa[2]) = {}
          /\ picked_adj' = pa
    /\ tries' = tries + 1
    /\ pc' = "L130"
    /\ UNCHANGED <<picked_noun, final_name, result>>
    /\ UNCHANGED <<storeVars, wordVars, reqVars, pickVars, normVars, sessVars>>

\* lines 145-147: no noun can be picked
AttemptNoNoun ==
    /\ InLoop
    /\ ~alliteration
    /\ \E pa \in pick_word_from_tiers(adjectives, tier_weights) :
          /\ pa # None
          /\ None \in noun_draws(pa[2])
          /\ picked_adj' = pa
    /\ tries' = tries + 1
    /\ picked_noun' = None
    /\ result' = ret_L147
    /\ pc' = "L147"
    /\ UNCHANGED final_name
    /\ UNCHANGED <<storeVars, wordVars, reqVars, pickVars, normVars, sessVars>>

\* lines 150-157: a pair was drawn; it is rejected as a duplicate (continue)
\* or returned
AttemptPair ==
    /\ InLoop
    /\ \E pa \in pick_word_from_tiers(adjectives, tier_weights) :
          /\ pa # None
          /\ alliteration => Len(pa[2]) > 0
          /\ \E pn \in noun_draws(pa[2]) :
                /\ pn # None
                /\ picked_adj' = pa
                /\ picked_noun' = pn
                /\ final_name' = format_name(pa[2], pn[2])
                /\ IF is_duplicate(format_name(pa[2], pn[2]))
                   THEN /\ pc' = "L130"
                        /\ UNCHANGED result
                   ELSE /\ pc' = "L157"
                        /\ result' = make_result(format_name(pa[2], pn[2]), pa[1], pn[1])
    /\ tries' = tries + 1
    /\ UNCHANGED <<storeVars, wordVars, reqVars, pickVars, normVars, sessVars>>

\* lines 130, 159: the loop condition fails
LoopExhausted ==
    /\ pc = "L130"
    /\ ~(tries < MAX_TRIES)
    /\ result' = ret_L159
    /\ pc' = "L159"
    /\ UNCHANGED <<tries, picked_adj, picked_noun, final_name>>
    /\ UNCHANGED <<storeVars, wordVars, reqVars, pickVars, normVars, sessVars>>

generate_one_name ==
    \/ AttemptNoAdjective
    \/ AttemptIndexError
    \/ AttemptNoCandidates
    \/ AttemptNoNoun
    \/ AttemptPair
    \/ LoopExhausted

\* the adjectives and nouns of the tiers with weight > 0
EnabledAdjectives ==
    UNION {{<<t, dict_get(adjectives, t, <<>>)[i]>> :
                i \in 1..Len(dict_get(adjectives, t, <<>>))} :
              t \in {u \in DOMAIN tier_weights : tier_weights[u] > 0}}

EnabledNouns == enabled_nouns(nouns, tier_weights)

\* every formatted name the enabled pools can produce, lower-cased
AllNames ==
    {str_lower(format_name(a[2], n[2])) : a \in EnabledAdjectives, n \in EnabledNouns}

\* those built on an adjective of the tier Common
CommonNames ==
    {str_lower(format_name(a[2], n[2])) :
        a \in {x \in EnabledAdjectives : x[1] = "Common"}, n \in EnabledNouns}

\* Inputs of one call: stores, weight maps, separators, case modes, both
\* flags, and used_names empty, partial or covering every name.
InitGen ==
    /\ file = Absent /\ data = Absent /\ tiers = <<>> /\ event = <<"start">>
    /\ adjectives \in AdjDicts
    /\ nouns \in NounDicts
    /\ tier_weights \in [TierNames -> Weights]
    /\ separator \in Separators
    /\ case_mode \in CaseModes
    /\ alliteration \in BOOLEAN
    /\ avoid_duplicates \in BOOLEAN
    /\ used_names \in {{}, CommonNames, AllNames}
    /\ pc = "L130" /\ tries = 0
    /\ picked_adj = None /\ picked_noun = None /\ final_name = None /\ result = None
    /\ lists = None /\ picked = None
    /\ text = None /\ out = None
    /\ last_name = None /\ history = <<>>

SpecGen == InitGen /\ [][generate_one_name]_vars
(* ------------------------------------------------------------------ *)
(* TextNormalizer                                                     *)
(* ------------------------------------------------------------------ *)

is_delim(c) == c \in {"\n", ","}
is_space(c) == c \in {" ", "\t"}
is_word_char(c) == is_cased(c) \/ c \in {" ", "-", "'"}

\* re.split(r"[\n,]+", s): the pieces between the maximal runs of delimiters
RECURSIVE re_split(_, _, _)
re_split(s, i, cur) ==
    IF i > Len(s) THEN <<cur>>
    ELSE IF is_delim(s[i])
         THEN IF i > 1 /\ is_delim(s[i-1])
              THEN re_split(s, i + 1, cur)
              ELSE <<cur>> \o re_split(s, i + 1, <<>>)
         ELSE re_split(s, i + 1, Append(cur, s[i]))

\* s.strip()
RECURSIVE str_strip(_)
str_strip(s) ==
    IF s = <<>> THEN s
    ELSE IF is_space(Head(s)) THEN str_strip(Tail(s))
    ELSE IF is_space(s[Len(s)]) THEN str_strip(SubSeq(s, 1, Len(s) - 1))
    ELSE s

\* lines 45-50 without the .strip() that follows re.sub
clean_piece_nostrip(w) ==
    IF str_strip(w) = <<>> THEN <<>>
    ELSE SelectSeq(str_strip(w), is_word_char)

\* lines 45-50 for one piece: <<>> when the piece is dropped
clean_piece(w) ==
    IF str_strip(w) = <<>> THEN <<>>
    ELSE str_strip(SelectSeq(str_strip(w), is_word_char))

\* lines 44-50
RECURSIVE clean_pieces(_)
clean_pieces(raw) ==
    IF raw = <<>> THEN <<>>
    ELSE IF clean_piece(Head(raw)) = <<>> THEN clean_pieces(Tail(raw))
    ELSE <<clean_piece(Head(raw))>> \o clean_pieces(Tail(raw))

\* lines 53-59: dedupe while keeping order
RECURSIVE dedupe(_, _)
dedupe(words, seen) ==
    IF words = <<>> THEN <<>>
    ELSE IF str_lower(Head(words)) \in seen THEN dedupe(Tail(words), seen)
    ELSE <<Head(words)>> \o dedupe(Tail(words), seen \cup {str_lower(Head(words))})

normalize_words(s) == dedupe(clean_pieces(re_split(s, 1, <<>>)), {})

(* ------------------------------------------------------------------ *)
(* WordStore: data/wordlists.json and the module-level load           *)
(* ------------------------------------------------------------------ *)

\* Most tiers the store is grown to.
MaxTiers == 4

Range(seq) == {seq[i] : i \in 1..Len(seq)}

DefaultTiers == <<"Common", "Rare", "Epic">>

EmptyDict == <<>>

\* the default of ensure_data_file
DefaultData ==
    [tiers      |-> DefaultTiers,
     adjectives |-> [t \in Range(DefaultTiers) |-> <<>>],
     nouns      |-> [t \in Range(DefaultTiers) |-> <<>>]]

\* d[k] = v
dict_set(d, k, v) == [x \in DOMAIN d \cup {k} |-> IF x = k THEN v ELSE d[x]]

\* d.setdefault(k, v)
dict_setdefault(d, k, v) == IF k \in DOMAIN d THEN d ELSE dict_set(d, k, v)

\* d.pop(k, None)
dict_pop(d, k) == [x \in DOMAIN d \ {k} |-> d[x]]

\* lst.remove(x): drops the first occurrence
list_remove(lst, x) ==
    LET i == CHOOSE j \in 1..Len(lst) :
                 lst[j] = x /\ \A k \in 1..(j - 1) : lst[k] # x
    IN  SubSeq(lst, 1, i - 1) \o SubSeq(lst, i + 1, Len(lst))

\* json.dump writes the key None as "null"
json_key(k) == IF k = None THEN "null" ELSE k

\* a dict as json.dump writes it and json.load reads it back; of two equal
\* keys the later one (None is inserted after "null") is the one read
json_dict(d) ==
    [k \in {json_key(x) : x \in DOMAIN d} |->
        IF k = "null" /\ None \in DOMAIN d THEN d[None] ELSE d[k]]

\* save_wordlists(d): the new content of the file
save_wordlists(d) ==
    [k \in DOMAIN d |-> IF k = "tiers" THEN d[k] ELSE json_dict(d[k])]

\* a file whose content json.load rejects
Unparsable == [unparsable |-> TRUE]

RequiredKeys == {"tiers", "adjectives", "nouns"}

\* ensure_data_file: the file after it ran
ensure_data_file(f) == IF f = Absent THEN save_wordlists(DefaultData) ELSE f

\* load_wordlists on a file that parses
load_wordlists(f) == ensure_data_file(f)

\* lines 481-483
load_tiers(d)      == dict_get(d, "tiers", DefaultTiers)
load_adjectives(d) == dict_get(d, "adjectives", EmptyDict)
load_nouns(d)      == dict_get(d, "nouns", EmptyDict)

\* st.selectbox(label, options): the option the user selected, None when
\* there is no option
selectbox(options) == IF options = <<>> THEN {None} ELSE Range(options)

\* Texts of the "Add tier name" input, as tokens: a blank or a run of
\* non-blank characters, which is the tier name.
AddTexts == {<<>>, <<" ">>, <<"Epic">>, <<"epic">>, <<" ", "Mythic", " ">>}

\* new_tier.strip() on tokens
RECURSIVE strip_tokens(_)
strip_tokens(tokens) ==
    IF tokens = <<>> THEN tokens
    ELSE IF Head(tokens) = " " THEN strip_tokens(Tail(tokens))
    ELSE IF tokens[Len(tokens)] = " " THEN strip_tokens(SubSeq(tokens, 1, Len(tokens) - 1))
    ELSE tokens

\* the str of a stripped text: "" or its one run of non-blank characters
text_of(tokens) == IF tokens = <<>> THEN "" ELSE tokens[1]

\* Texts of the two text areas of the list editor
EditTexts == {<<>>, <<"b", ",", " ", "A", "b", "\n", "a", "B", "1">>}

genVars == <<reqVars, callVars, pickVars, normVars, sessVars>>

\* The page is rendered for the first time, or rerun without a button
\* (lines 480-483).
Rerun ==
    /\ file # Unparsable
    /\ file' = ensure_data_file(file)
    /\ data' = load_wordlists(file)
    /\ tiers' = load_tiers(data')
    /\ adjectives' = load_adjectives(data')
    /\ nouns' = load_nouns(data')
    /\ event' = <<"rerun">>
    /\ UNCHANGED genVars

\* lines 635-646 with the test `t not in tiers` left out
AddTier_nocheck(new_tier) ==
    LET d == load_wordlists(file)
        t == text_of(strip_tokens(new_tier))
    IN  /\ data # Absent
        /\ Len(load_tiers(d)) < MaxTiers
        /\ event' = <<"add", new_tier>>
        /\ IF t # ""
           THEN /\ tiers' = Append(load_tiers(d), t)
                /\ adjectives' = dict_setdefault(d["adjectives"], t, <<>>)
                /\ nouns' = dict_setdefault(d["nouns"], t, <<>>)
                /\ data' = [tiers |-> tiers', adjectives |-> adjectives', nouns |-> nouns']
                /\ file' = save_wordlists(data')
           ELSE /\ tiers' = load_tiers(d)
                /\ adjectives' = load_adjectives(d)
                /\ nouns' = load_nouns(d)
                /\ data' = d
                /\ file' = file
        /\ UNCHANGED genVars

\* "Add tier" is clicked with new_tier in the text input (lines 480-483,
\* 634-646)
AddTier(new_tier) ==
    LET d == load_wordlists(file)
        t == text_of(strip_tokens(new_tier))
    IN  /\ data # Absent
        /\ Len(load_tiers(d)) < MaxTiers
        /\ event' = <<"add", new_tier>>
        /\ IF t # "" /\ t \notin Range(load_tiers(d))
           THEN /\ tiers' = Append(load_tiers(d), t)
                /\ adjectives' = dict_setdefault(d["adjectives"], t, <<>>)
                /\ nouns' = dict_setdefault(d["nouns"], t, <<>>)
                /\ data' = [tiers |-> tiers', adjectives |-> adjectives', nouns |-> nouns']
                /\ file' = save_wordlists(data')
           ELSE /\ tiers' = load_tiers(d)
                /\ adjectives' = load_adjectives(d)
                /\ nouns' = load_nouns(d)
                /\ data' = d
                /\ file' = file
        /\ UNCHANGED genVars

\* "Remove selected tier" is clicked with remove_tier selected (lines
\* 480-483, 648-660)
RemoveTier(remove_tier) ==
    LET d == load_wordlists(file)
    IN  /\ data # Absent
        /\ remove_tier \in {"(select)"} \cup Range(load_tiers(d))
        /\ event' = <<"remove", remove_tier>>
        /\ IF remove_tier # "(select)" /\ remove_tier \in Range(load_tiers(d))
           THEN /\ tiers' = list_remove(load_tiers(d), remove_tier)
                /\ adjectives' = dict_pop(d["adjectives"], remove_tier)
                /\ nouns' = dict_pop(d["nouns"], remove_tier)
                /\ data' = [tiers |-> tiers', adjectives |-> adjectives', nouns |-> nouns']
                /\ file' = save_wordlists(data')
           ELSE /\ tiers' = load_tiers(d)
                /\ adjectives' = load_adjectives(d)
                /\ nouns' = load_nouns(d)
                /\ data' = d
                /\ file' = file
        /\ UNCHANGED genVars

\* "Save tier lists" is clicked with edit_tier selected and the two texts
\* in the text areas (lines 480-483, 574, 593-599)
SaveTierLists(edit_tier, adj_text, noun_text) ==
    LET d == load_wordlists(file)
    IN  /\ data # Absent
        /\ edit_tier \in selectbox(load_tiers(d))
        /\ event' = <<"save", edit_tier, adj_text, noun_text>>
        /\ tiers' = load_tiers(d)
        /\ adjectives' = dict_set(load_adjectives(d), edit_tier, normalize_words(adj_text))
        /\ nouns' = dict_set(load_nouns(d), edit_tier, normalize_words(noun_text))
        /\ data' = [tiers |-> tiers', adjectives |-> adjectives', nouns |-> nouns']
        /\ file' = save_wordlists(data')
        /\ UNCHANGED genVars

\* Uploads of the importer: a store with lists under a name that is not
\* a tier, a store with a tier named twice, an object without the key
\* tiers, and a file that does not parse.
ImportFiles ==
    { [tiers      |-> <<"Common">>,
       adjectives |-> [Common |-> <<>>, Mythic |-> <<W_b>>],
       nouns      |-> [Common |-> <<W_B>>]],
      [tiers      |-> <<"Rare", "Rare">>,
       adjectives |-> [Rare |-> <<W_Ab>>],
       nouns      |-> EmptyDict],
      [adjectives |-> EmptyDict, nouns |-> EmptyDict],
      Unparsable }

\* A file is uploaded in the importer (lines 480-483, 617-628); after a
\* successful import st.rerun() loads the saved file.
Import(new_data) ==
    LET accepted == new_data # Unparsable /\ RequiredKeys \subseteq DOMAIN new_data
    IN  /\ data # Absent
        /\ event' = <<"import", new_data>>
        /\ file' = IF accepted THEN save_wordlists(new_data) ELSE ensure_data_file(file)
        /\ data' = load_wordlists(file')
        /\ tiers' = load_tiers(data')
        /\ adjectives' = load_adjectives(data')
        /\ nouns' = load_nouns(data')
        /\ UNCHANGED genVars

TierChoices == {None, "(select)", "Common", "Rare", "Epic", "epic", "Mythic", "null"}

InitStore ==
    /\ file = Absent /\ data = Absent /\ tiers = <<>> /\ event = <<"start">>
    /\ adjectives = EmptyDict /\ nouns = EmptyDict
    /\ tier_weights = EmptyDict
    /\ separator = "Space" /\ case_mode = "Title Case"
    /\ alliteration = FALSE /\ avoid_duplicates = TRUE /\ used_names = {}
    /\ pc = "idle" /\ tries = 0
    /\ picked_adj = None /\ picked_noun = None /\ final_name = None /\ result = None
    /\ lists = None /\ picked = None
    /\ text = None /\ out = None
    /\ last_name = None /\ history = <<>>

\* the tier editor without the list editor
NextTiers ==
    \/ Rerun
    \/ \E new_tier \in AddTexts : AddTier(new_tier)
    \/ \E remove_tier \in TierChoices : RemoveTier(remove_tier)

\* the tier editor and the importer
NextImport ==
    \/ NextTiers
    \/ \E new_data \in ImportFiles : Import(new_data)

SpecImport == InitStore /\ [][NextImport]_vars

NextStore ==
    \/ NextTiers
    \/ \E edit_tier \in TierChoices, adj_text \in EditTexts, noun_text \in EditTexts :
          SaveTierLists(edit_tier, adj_text, noun_text)

SpecStore == InitStore /\ [][NextStore]_vars

(* ------------------------------------------------------------------ *)
(* The module-level load on files written outside the application     *)
(* ------------------------------------------------------------------ *)

FileTiers == {<<>>, <<"Rare">>, DefaultTiers}
FileDicts == {EmptyDict, [Rare |-> <<W_b>>], DefaultData["adjectives"]}

\* JSON objects with some of the three keys
JsonFiles ==
    {[k \in ks |-> [tiers |-> t, adjectives |-> a, nouns |-> n][k]] :
        t \in FileTiers, a \in FileDicts, n \in FileDicts, ks \in SUBSET RequiredKeys}

InitLoad ==
    /\ file \in JsonFiles \cup {Absent, Unparsable}
    /\ data = Absent /\ tiers = <<>> /\ event = <<"start">>
    /\ adjectives = EmptyDict /\ nouns = EmptyDict
    /\ tier_weights = EmptyDict
    /\ separator = "Space" /\ case_mode = "Title Case"
    /\ alliteration = FALSE /\ avoid_duplicates = TRUE /\ used_names = {}
    /\ pc = "idle" /\ tries = 0
    /\ picked_adj = None /\ picked_noun = None /\ final_name = None /\ result = None
    /\ lists = None /\ picked = None
    /\ text = None /\ out = None
    /\ last_name = None /\ history = <<>>

\* line 32: json.load raises on a file that does not parse
RerunRaises ==
    /\ file = Unparsable
    /\ event' = <<"raise", "L32">>
    /\ UNCHANGED <<file, data, tiers, wordVars, genVars>>

SpecLoad == InitLoad /\ [][Rerun \/ RerunRaises]_vars

(* ------------------------------------------------------------------ *)
(* A direct call of pick_word_from_tiers                              *)
(* ------------------------------------------------------------------ *)

PickLists == {<<>>, <<W_b>>, <<W_Ab, W_>>}

InitPick ==
    /\ file = Absent /\ data = Absent /\ tiers = <<>> /\ event = <<"start">>
    /\ adjectives = <<>> /\ nouns = <<>>
    /\ lists \in Dicts(PickLists)
    /\ tier_weights \in Dicts(Weights)
    /\ separator = "Space" /\ case_mode = "Title Case"
    /\ alliteration = FALSE /\ avoid_duplicates = FALSE /\ used_names = {}
    /\ pc = "L94" /\ tries = 0
    /\ picked_adj = None /\ picked_noun = None /\ final_name = None /\ result = None
    /\ picked = None
    /\ text = None /\ out = None
    /\ last_name = None /\ history = <<>>

\* lines 94-99
Pick ==
    /\ pc = "L94"
    /\ picked' \in pick_word_from_tiers(lists, tier_weights)
    /\ pc' = "L99"
    /\ UNCHANGED <<tries, picked_adj, picked_noun, final_name, result, lists>>
    /\ UNCHANGED <<storeVars, wordVars, reqVars, normVars, sessVars>>

SpecPick == InitPick /\ [][Pick]_vars

(* ------------------------------------------------------------------ *)
(* A direct call of normalize_words                                   *)
(* ------------------------------------------------------------------ *)

\* Longest text given to normalize_words.
MaxLen == 5

\* two letters, one of them in both cases, a blank, both delimiters, a
\* character the regular expression of line 48 removes and one it keeps
NormAlphabet == {"a", "A", "b", " ", ",", "\n", "1", "-"}

Texts == UNION {[1..k -> NormAlphabet] : k \in 0..MaxLen}

\* "\n".join(words)
RECURSIVE join_lines(_)
join_lines(words) ==
    IF words = <<>> THEN <<>>
    ELSE IF Len(words) = 1 THEN Head(words)
    ELSE Head(words) \o <<"\n">> \o join_lines(Tail(words))

InitNorm ==
    /\ file = Absent /\ data = Absent /\ tiers = <<>> /\ event = <<"start">>
    /\ adjectives = <<>> /\ nouns = <<>>
    /\ tier_weights = <<>>
    /\ separator = "Space" /\ case_mode = "Title Case"
    /\ alliteration = FALSE /\ avoid_duplicates = FALSE /\ used_names = {}
    /\ pc = "L42" /\ tries = 0
    /\ picked_adj = None /\ picked_noun = None /\ final_name = None /\ result = None
    /\ lists = None /\ picked = None
    /\ text \in Texts /\ out = None
    /\ last_name = None /\ history = <<>>

\* lines 42-60
Normalize ==
    /\ pc = "L42"
    /\ out' = normalize_words(text)
    /\ pc' = "L60"
    /\ UNCHANGED text
    /\ UNCHANGED <<storeVars, wordVars, reqVars, pickVars, sessVars>>
    /\ UNCHANGED <<tries, picked_adj, picked_noun, final_name, result>>

\* normalize_words is called on the newline-join of what it returned
NormalizeJoined ==
    /\ pc = "L60"
    /\ text' = join_lines(out)
    /\ out' = normalize_words(text')
    /\ pc' = "L60"
    /\ UNCHANGED <<storeVars, wordVars, reqVars, pickVars, sessVars>>
    /\ UNCHANGED <<tries, picked_adj, picked_noun, final_name, result>>

SpecNorm == InitNorm /\ [][Normalize \/ NormalizeJoined]_vars

(* ------------------------------------------------------------------ *)
(* The session: sidebar widgets, the pull handler, used_names         *)
(* ------------------------------------------------------------------ *)

\* Most successful pulls of a session.
MaxPulls == 2

\* history is cut to its first 12 entries (line 552)
HISTORY_LEN == 12

\* The outcomes of one pass through the loop body (lines 131-157): the
\* pass returns None, raises, continues, or returns a triple.
attempt_pair(pa, pn, sep, cm, avoid, used) ==
    IF avoid /\ str_lower(join_name(apply_case(pa[2], cm), apply_case(pn[2], cm), sep))
                   \in used
    THEN <<"continue">>
    ELSE <<"return", make_result(join_name(apply_case(pa[2], cm),
                                           apply_case(pn[2], cm), sep), pa[1], pn[1])>>

attempt(adjs, nns, tw, sep, cm, allit, avoid, used) ==
    UNION {
        IF pa = None THEN {<<"none">>}
        ELSE IF allit
             THEN IF Len(pa[2]) = 0 THEN {<<"raise">>}
                  ELSE IF nouns_by_letter(nns, tw, lower_char(pa[2][1])) = {}
                       THEN {<<"continue">>}
                       ELSE {attempt_pair(pa, pn, sep, cm, avoid, used) :
                                pn \in nouns_by_letter(nns, tw, lower_char(pa[2][1]))}
             ELSE {IF pn = None THEN <<"none">>
                   ELSE attempt_pair(pa, pn, sep, cm, avoid, used) :
                      pn \in pick_word_from_tiers(nns, tw)}
        : pa \in pick_word_from_tiers(adjs, tw)}

\* lines 129-159 over the outcomes of one pass.  Every pass draws afresh, so
\* the loop ends with whatever a pass ends with, or, when a pass can
\* continue, with MAX_TRIES passes that all continue and the return None of
\* line 159.  SpecGen runs the same loop pass by pass.
tries_loop(passes) ==
    IF ~(0 < MAX_TRIES) THEN {<<"none">>}
    ELSE (passes \ {<<"continue">>})
            \cup (IF <<"continue">> \in passes THEN {<<"none">>} ELSE {})

\* the outcomes of a call of generate_one_name: <<"none">>, <<"raise">> or
\* <<"return", (final_name, adj_tier, noun_tier)>>
call_generate_one_name(adjs, nns, tw, sep, cm, allit, avoid, used) ==
    tries_loop(attempt(adjs, nns, tw, sep, cm, allit, avoid, used))

\* Under SpecGen every way the pass-by-pass call ends is an outcome of
\* call_generate_one_name.
LoopSummaryCoversCall ==
    /\ pc = "L157" =>
          <<"return", result>> \in
              call_generate_one_name(adjectives, nouns, tier_weights, separator,
                                     case_mode, alliteration, avoid_duplicates, used_names)
    /\ pc \in {"L135", "L147", "L159"} =>
          <<"none">> \in
              call_generate_one_name(adjectives, nouns, tier_weights, separator,
                                     case_mode, alliteration, avoid_duplicates, used_names)
    /\ pc = "L139" =>
          <<"raise">> \in
              call_generate_one_name(adjectives, nouns, tier_weights, separator,
                                     case_mode, alliteration, avoid_duplicates, used_names)

\* lines 406-411: the words of d in the tiers of ts with a weight > 0
enabled_words(d, ts, tw) ==
    UNION {Range(dict_get(d, ts[i], <<>>)) :
              i \in {j \in 1..Len(ts) : dict_get(tw, ts[j], 0) > 0}}

\* line 459
final_tier(adj_tier, noun_tier) == IF adj_tier # "" THEN adj_tier ELSE noun_tier

\* The outcomes of do_slot_animation: <<"none">>, <<"raise">> or
\* <<"return", (final_name, final_tier)>>
do_slot_animation(adjs, nns, ts, tw, sep, cm, allit, avoid, used) ==
    IF enabled_words(adjs, ts, tw) = {} \/ enabled_words(nns, ts, tw) = {}
    THEN {<<"none">>}
    ELSE {IF o[1] = "return"
          THEN <<"return", <<o[2][1], final_tier(o[2][2], o[2][3])>>>>
          ELSE o :
             o \in call_generate_one_name(adjs, nns, tw, sep, cm, allit, avoid, used)}

\* lst[:n]
list_head(lst, n) == SubSeq(lst, 1, IF Len(lst) < n THEN Len(lst) ELSE n)

\* The store of the session: an adjective that is empty (an imported file
\* can hold one), and one noun
SessionData ==
    [tiers      |-> <<"Common", "Rare">>,
     adjectives |-> [Common |-> <<W_b>>, Rare |-> <<W_>>],
     nouns      |-> [Common |-> <<W_B>>, Rare |-> <<>>]]

SessionSeparators == {"Space", "of"}

\* a slider at 0 or at the largest weight
SessionWeights == {0, MaxWeight}

\* lines 480-483 of a script run, the store being left as it is
LoadOnly ==
    /\ file # Unparsable
    /\ file' = ensure_data_file(file)
    /\ data' = load_wordlists(file)
    /\ tiers' = load_tiers(data')
    /\ adjectives' = load_adjectives(data')
    /\ nouns' = load_nouns(data')

idleVars == <<pc, tries, picked_adj, picked_noun, final_name, pickVars, normVars>>

\* A sidebar widget is changed: the script runs without a button
\* (lines 496-509), and result is not bound in that run
SetSeparator(v) ==
    /\ LoadOnly
    /\ separator' = v
    /\ event' = <<"set">>
    /\ UNCHANGED <<case_mode, alliteration, avoid_duplicates, tier_weights>>
    /\ result' = None
    /\ UNCHANGED <<used_names, sessVars, idleVars>>

SetCaseMode(v) ==
    /\ LoadOnly
    /\ case_mode' = v
    /\ event' = <<"set">>
    /\ UNCHANGED <<separator, alliteration, avoid_duplicates, tier_weights>>
    /\ result' = None
    /\ UNCHANGED <<used_names, sessVars, idleVars>>

SetAlliteration(v) ==
    /\ LoadOnly
    /\ alliteration' = v
    /\ event' = <<"set">>
    /\ UNCHANGED <<separator, case_mode, avoid_duplicates, tier_weights>>
    /\ result' = None
    /\ UNCHANGED <<used_names, sessVars, idleVars>>

SetAvoidDuplicates(v) ==
    /\ LoadOnly
    /\ avoid_duplicates' = v
    /\ event' = <<"set">>
    /\ UNCHANGED <<separator, case_mode, alliteration, tier_weights>>
    /\ result' = None
    /\ UNCHANGED <<used_names, sessVars, idleVars>>

SetWeight(t, w) ==
    /\ LoadOnly
    /\ t \in DOMAIN tier_weights
    /\ tier_weights' = [tier_weights EXCEPT ![t] = w]
    /\ event' = <<"set">>
    /\ UNCHANGED <<separator, case_mode, alliteration, avoid_duplicates>>
    /\ result' = None
    /\ UNCHANGED <<used_names, sessVars, idleVars>>

\* "Clear session duplicates" is clicked (lines 512-514)
ClearDuplicates ==
    /\ LoadOnly
    /\ used_names' = {}
    /\ event' = <<"clear">>
    /\ result' = None
    /\ UNCHANGED <<separator, case_mode, alliteration, avoid_duplicates, tier_weights>>
    /\ UNCHANGED <<sessVars, idleVars>>

\* lines 546-552 with the test of avoid_duplicates negated
PullStore_negated(final, tier) ==
    /\ result' = <<final, tier>>
    /\ last_name' = final
    /\ used_names' = IF ~avoid_duplicates
                      THEN used_names \cup {str_lower(final)}
                      ELSE used_names
    /\ history' = list_head(<<(<<final, tier>>)>> \o history, HISTORY_LEN)

\* lines 546-552: the pull returned (final, tier); the time of day kept in
\* history is left out
PullStore(final, tier) ==
    /\ result' = <<final, tier>>
    /\ last_name' = final
    /\ used_names' = IF avoid_duplicates
                      THEN used_names \cup {str_lower(final)}
                      ELSE used_names
    /\ history' = list_head(<<(<<final, tier>>)>> \o history, HISTORY_LEN)

\* The lever is pulled (lines 480-483, 530-552, with do_slot_animation and
\* generate_one_name)
Pull ==
    /\ LoadOnly
    /\ Len(history) < MaxPulls
    /\ \E o \in do_slot_animation(adjectives', nouns', tiers', tier_weights, separator,
                                   case_mode, alliteration, avoid_duplicates, used_names) :
          \/ /\ o = <<"none">>
             /\ event' = <<"pull">>
             /\ result' = None
             /\ UNCHANGED <<used_names, sessVars>>
          \/ /\ o = <<"raise">>
             /\ event' = <<"raise", "L139">>
             /\ result' = None
             /\ UNCHANGED <<used_names, sessVars>>
          \/ /\ o[1] = "return"
             /\ event' = <<"pull">>
             /\ PullStore(o[2][1], o[2][2])
    /\ UNCHANGED <<separator, case_mode, alliteration, avoid_duplicates, tier_weights>>
    /\ UNCHANGED idleVars

InitSession ==
    /\ file = save_wordlists(SessionData) /\ data = file
    /\ tiers = load_tiers(data)
    /\ adjectives = load_adjectives(data) /\ nouns = load_nouns(data)
    /\ event = <<"start">>
    /\ tier_weights \in [Range(tiers) -> SessionWeights]
    /\ separator = "Space" /\ case_mode = "Title Case"
    /\ alliteration = FALSE /\ avoid_duplicates = TRUE /\ used_names = {}
    /\ pc = "idle" /\ tries = 0
    /\ picked_adj = None /\ picked_noun = None /\ final_name = None /\ result = None
    /\ lists = None /\ picked = None
    /\ text = None /\ out = None
    /\ last_name = None /\ history = <<>>

NextSession ==
    \/ \E v \in SessionSeparators : SetSeparator(v)
    \/ \E v \in CaseModes : SetCaseMode(v)
    \/ \E v \in BOOLEAN : SetAlliteration(v)
    \/ \E v \in BOOLEAN : SetAvoidDuplicates(v)
    \/ \E t \in TierNames, w \in SessionWeights : SetWeight(t, w)
    \/ ClearDuplicates
    \/ Pull

SpecSession == InitSession /\ [][NextSession]_vars

(* ------------------------------------------------------------------ *)
(* Properties of the picker and the generator                         *)
(* ------------------------------------------------------------------ *)

\* a tier with a weight > 0 and a non-empty list in lists
SomeTierEligible(ls) ==
    \E t \in DOMAIN tier_weights :
        tier_weights[t] > 0 /\ t \in DOMAIN ls /\ ls[t] # <<>>

\* C1: pick_word_from_tiers returns None exactly when no tier has both a
\* weight > 0 and a non-empty list; the (tier, word) it returns otherwise has
\* tier_weights[tier] > 0 and word in lists[tier].
C1_PickContract ==
    pc = "L99" =>
        /\ (picked = None) <=> ~SomeTierEligible(lists)
        /\ picked # None =>
              /\ picked[1] \in DOMAIN tier_weights
              /\ tier_weights[picked[1]] > 0
              /\ picked[1] \in DOMAIN lists
              /\ \E i \in 1..Len(lists[picked[1]]) : lists[picked[1]][i] = picked[2]

\* a word was picked although another tier with words has weight 0
C1_Witness ==
    /\ pc = "L99"
    /\ picked # None
    /\ \E t \in DOMAIN tier_weights \cap DOMAIN lists :
          tier_weights[t] = 0 /\ lists[t] # <<>>

\* C2: with alliteration on, a returned name is built from a raw adjective
\* and a raw noun whose first characters are equal case-insensitively.
C2_Alliteration ==
    (pc = "L157" /\ alliteration) =>
        /\ Len(picked_adj[2]) > 0
        /\ Len(picked_noun[2]) > 0
        /\ lower_char(picked_adj[2][1]) = lower_char(picked_noun[2][1])

\* an alliterative name whose two first letters differ in case
C2_Witness ==
    /\ pc = "L157"
    /\ alliteration
    /\ picked_adj[2][1] # picked_noun[2][1]
    /\ result[1] = final_name

\* C3: with avoid_duplicates on and used_names holding the lower-case form
\* of every name the enabled pools can produce, the call returns None within
\* MAX_TRIES attempts.
C3_AllUsedReturnsNone ==
    (avoid_duplicates /\ AllNames \subseteq used_names) =>
        /\ tries <= MAX_TRIES
        /\ pc # "L139"
        /\ pc # "L130" => result = None

\* C4: every call ends by returning, after at most MAX_TRIES attempts, never
\* by raising; when the attempts are used up it returns None.
C4_ReturnsWithinBound ==
    /\ tries <= MAX_TRIES
    /\ pc # "L139"
    /\ pc = "L159" => result = None

\* no tier with weight > 0 has a non-empty list in ls
NoneEligible(ls) == ~SomeTierEligible(ls)

\* C5: without an eligible adjective the call returns None in its first
\* attempt; with alliteration off, an eligible adjective and no eligible noun
\* it returns None in its first attempt.
C5_FailsInFirstAttempt ==
    /\ NoneEligible(adjectives) =>
          \/ pc = "L130" /\ tries = 0
          \/ pc = "L135" /\ tries = 1 /\ result = None
    /\ (~alliteration /\ ~NoneEligible(adjectives) /\ NoneEligible(nouns)) =>
          \/ pc = "L130" /\ tries = 0
          \/ pc = "L147" /\ tries = 1 /\ result = None /\ picked_adj # None

\* an adjective was picked and the noun pick failed
C5_Witness ==
    /\ pc = "L147"
    /\ tries = 1
    /\ picked_adj # None
    /\ ~alliteration
    /\ NoneEligible(nouns)

\* C6: the value returned when no word is eligible differs from the value
\* returned when the attempts are used up.
C6_Distinguishable ==
    /\ pc \in {"L135", "L147"} => result # ret_L159
    /\ pc = "L159" => (result # ret_L135 /\ result # ret_L147)

\* the words of tier t in the dict d
WordsOf(d, t) == {dict_get(d, t, <<>>)[i] : i \in 1..Len(dict_get(d, t, <<>>))}

\* C7: a returned (final_name, adj_tier, noun_tier) is the join of the
\* case-transformed forms of an adjective of adj_tier and a noun of
\* noun_tier, both tiers with weight > 0; with one enabled adjective, one
\* enabled noun and no duplicate exclusion it is that pair.
C7_ResultProvenance ==
    pc = "L157" =>
        /\ tier_weights[result[2]] > 0
        /\ tier_weights[result[3]] > 0
        /\ \E a \in WordsOf(adjectives, result[2]), n \in WordsOf(nouns, result[3]) :
              result[1] =
                join_name(apply_case(a, case_mode), apply_case(n, case_mode), separator)
        /\ (Cardinality(EnabledAdjectives) = 1 /\ Cardinality(EnabledNouns) = 1
              /\ ~avoid_duplicates) =>
              \E a \in EnabledAdjectives, n \in EnabledNouns :
                  result = <<join_name(apply_case(a[2], case_mode),
                                       apply_case(n[2], case_mode), separator),
                             a[1], n[1]>>

\* a name returned after a retry, its parts from different tiers and
\* changed by the case transform
C7_Witness ==
    /\ pc = "L157"
    /\ tries > 1
    /\ result[2] # result[3]
    /\ result[1] # join_name(picked_adj[2], picked_noun[2], separator)
(* ------------------------------------------------------------------ *)
(* Properties of the store                                            *)
(* ------------------------------------------------------------------ *)

\* C8: once the store is loaded, the names in tiers are exactly the keys of
\* adjectives and exactly the keys of nouns, in memory and in the file; a
\* removed tier is absent from all three.
C8_TiersAreTheKeys ==
    data # Absent =>
        /\ DOMAIN adjectives = Range(tiers)
        /\ DOMAIN nouns = Range(tiers)
        /\ DOMAIN file["adjectives"] = Range(file["tiers"])
        /\ DOMAIN file["nouns"] = Range(file["tiers"])
        /\ (event[1] = "remove" /\ event[2] # "(select)") =>
              event[2] \notin Range(tiers) \cup DOMAIN adjectives \cup DOMAIN nouns

NoDuplicateTiers ==
    \A i, j \in 1..Len(tiers) : tiers[i] = tiers[j] => i = j

\* the step is an "Add tier" step that changes nothing
AddTierNoOp == UNCHANGED <<tiers, adjectives, nouns, file>>

\* the step is an "Add tier" step that appends t to tiers, leaves the other
\* entries of both mappings alone and writes the file
AddTierAppends(t) ==
    /\ tiers' = tiers \o <<t>>
    /\ DOMAIN adjectives' = DOMAIN adjectives \cup {t}
    /\ DOMAIN nouns' = DOMAIN nouns \cup {t}
    /\ \A u \in DOMAIN adjectives : adjectives'[u] = adjectives[u]
    /\ \A u \in DOMAIN nouns : nouns'[u] = nouns[u]
    /\ file' = [tiers |-> tiers', adjectives |-> adjectives', nouns |-> nouns']

\* "Add tier" and "Remove selected tier" do not make a name occur twice
KeepsTiersDistinct ==
    (event'[1] \in {"add", "remove"} /\ NoDuplicateTiers) => NoDuplicateTiers'

\* C9 as stated: an "Add tier" whose trimmed name is empty or already in
\* tiers leaves tiers, adjectives, nouns and the file as they are; any other
\* appends the name to tiers, both mappings then hold an empty list for it,
\* and the file is written; add and remove never make a name occur twice.
C9_AddTierEmptyLists ==
    [][/\ \A new_tier \in AddTexts :
            (event'[1] = "add" /\ event'[2] = new_tier) =>
                IF strip_tokens(new_tier) = <<>>
                   \/ \E i \in 1..Len(tiers) : tiers[i] = strip_tokens(new_tier)[1]
                THEN AddTierNoOp
                ELSE /\ AddTierAppends(strip_tokens(new_tier)[1])
                     /\ adjectives'[strip_tokens(new_tier)[1]] = <<>>
                     /\ nouns'[strip_tokens(new_tier)[1]] = <<>>
       /\ KeepsTiersDistinct]_vars

\* C9 (amended): as above, but a mapping that already has an entry under the
\* new name keeps that entry; it gets an empty list only when it has none.
C9_AddTier ==
    [][/\ \A new_tier \in AddTexts :
            (event'[1] = "add" /\ event'[2] = new_tier) =>
                IF strip_tokens(new_tier) = <<>>
                   \/ \E i \in 1..Len(tiers) : tiers[i] = strip_tokens(new_tier)[1]
                THEN AddTierNoOp
                ELSE /\ AddTierAppends(strip_tokens(new_tier)[1])
                     /\ strip_tokens(new_tier)[1] \notin DOMAIN adjectives =>
                            adjectives'[strip_tokens(new_tier)[1]] = <<>>
                     /\ strip_tokens(new_tier)[1] \notin DOMAIN nouns =>
                            nouns'[strip_tokens(new_tier)[1]] = <<>>
       /\ KeepsTiersDistinct]_vars

\* a tier was appended whose adjectives were already in the store and whose
\* nouns were not
C9_Witness ==
    /\ event[1] = "add"
    /\ tiers = <<"Common", "Mythic">>
    /\ adjectives["Mythic"] = <<W_b>>
    /\ nouns["Mythic"] = <<>>
    /\ file["tiers"] = tiers

\* C10: a load that completes found the three required keys in the file,
\* and what it bound to tiers, adjectives and nouns is what the file holds.
C10_MissingKeyFails ==
    event = <<"rerun">> =>
        /\ RequiredKeys \subseteq DOMAIN file
        /\ tiers = file["tiers"]
        /\ adjectives = file["adjectives"]
        /\ nouns = file["nouns"]
(* ------------------------------------------------------------------ *)
(* Properties of the normalizer                                       *)
(* ------------------------------------------------------------------ *)

\* no word of words is empty and no two are equal case-insensitively
CleanList(words) ==
    /\ \A i \in 1..Len(words) : words[i] # <<>>
    /\ \A i, j \in 1..Len(words) :
          str_lower(words[i]) = str_lower(words[j]) => i = j

\* C11: normalize_words applied to the newline-join of normalize_words(text)
\* yields the same sequence as normalize_words(text), word for word in
\* casing and order; that sequence has no empty word and no two words equal
\* case-insensitively.
C11_Idempotent ==
    pc = "L60" =>
        /\ normalize_words(join_lines(out)) = out
        /\ CleanList(out)
        /\ text = join_lines(out) => normalize_words(text) = out

\* the first call returned, on a text whose pieces needed cleaning,
\* trimming after the cleaning, and deduplication
C11_Witness ==
    /\ pc = "L60"
    /\ text = <<"a", " ", "1", ",", "A">>
    /\ out = <<(<<"a">>)>>
(* ------------------------------------------------------------------ *)
(* Properties of the session                                          *)
(* ------------------------------------------------------------------ *)

\* the step is a pull that returned a name while avoid_duplicates was on
SuccessfulAvoidPull ==
    /\ event' = <<"pull">>
    /\ result' # None
    /\ avoid_duplicates

\* the lower-case forms of the names in history
HistoryNames(h) == {str_lower(h[i][1]) : i \in 1..Len(h)}

\* C12: in a session, the name a successful pull with avoid_duplicates on
\* returns is, in lower case, not in used_names before the pull and in it
\* after the pull; used_names holds only names that were pulled and loses a
\* name only by "Clear session duplicates".  So among pulls with
\* avoid_duplicates on and no clear in between no two return names equal
\* case-insensitively, whatever separator, case mode, weights and
\* alliteration each pull is made with.
C12_NoRepeatedName ==
    [][/\ SuccessfulAvoidPull =>
            /\ str_lower(result'[1]) \notin used_names
            /\ used_names' = used_names \cup {str_lower(result'[1])}
            /\ last_name' = result'[1]
       /\ event'[1] # "clear" => used_names \subseteq used_names'
       /\ used_names' \subseteq HistoryNames(history')]_vars

\* two pulls with avoid_duplicates on returned the same adjective and noun:
\* the first with capitals, the second, after the case mode was changed to
\* lower, with the other separator
C12_Witness ==
    /\ event = <<"pull">>
    /\ avoid_duplicates
    /\ case_mode = "lower"
    /\ Len(history) = 2
    /\ history[1] = <<result[1], "Common">>
    /\ history[2][2] = "Common"
    /\ str_lower(history[2][1]) # history[2][1]
    /\ used_names = HistoryNames(history)
    /\ Cardinality(used_names) = 2
====
